---- MODULE Spec2Model ----
(***************************************************************************)
(* Model of alignment.py: the Smith-Waterman style aligner                 *)
(* (smith_waterman_alignment), the edit classifier (get_edit_type,         *)
(* align_and_calc_edit_types), the gap padder (padded_alignments) and the  *)
(* n-gram extractor (calc_aligned_ngram_tuples).                           *)
(*                                                                         *)
(* A behaviour is one call of one of the four entry points.  The aligner   *)
(* is stepped through its three phases: matrix initialisation, the         *)
(* row-major recurrence (one cell per step) and the traceback (one loop    *)
(* iteration per step).  Python sequences are 0-indexed, TLA+ sequences    *)
(* 1-indexed: Python's ref[m-1] is ref[m] here.  Matrix indices (m, n)     *)
(* are kept as in the source.                                              *)
(***************************************************************************)
EXTENDS Integers, Sequences, FiniteSets, TLC

VARIABLES entry, ref, hyp, match_score, mismatch_score, del_score, ins_score,
          eps_symbol, align_full_hyp, order,
          H, bp, max_score, max_score_element,
          ref_index, hyp_index, score, output,
          ets, alignments, ngrams, raised, pc,
          gen_o, gen_k, gen_n, caller_writes

\* the suspended generator's loop position and the caller's writes so far
genvars == <<gen_o, gen_k, gen_n, caller_writes>>

vars == <<entry, ref, hyp, match_score, mismatch_score, del_score, ins_score,
          eps_symbol, align_full_hyp, order,
          H, bp, max_score, max_score_element,
          ref_index, hyp_index, score, output,
          ets, alignments, ngrams, raised, pc,
          gen_o, gen_k, gen_n, caller_writes>>

(***************************************************************************)
(* Bounds of the exploration.                                              *)
(***************************************************************************)
MaxRefLen == 3
MaxHypLen == 3
MaxOrder == 2
MaxCallerWrites == 1

Tokens == {"a", "b"}

\* Scoring configurations explored for a direct call of the aligner.
MatchScores == {2}
MismatchScores == {-4, -1, 0}
DelScores == {-5, -1, 1}
InsScores == {-5, -1, 1}

\* -float("inf"): below every score a matrix cell can hold.
NegInf == -1000

\* None in the index slots of the padding records.
NoneIdx == -1

Entries == {"smith_waterman_alignment", "align_and_calc_edit_types",
            "padded_alignments", "calc_aligned_ngram_tuples"}

SeqsUpTo(n) == UNION {[1..k -> Tokens] : k \in 0..n}

ref_len == Len(ref)
hyp_len == Len(hyp)

(***************************************************************************)
(* The similarity function every caller in the file passes:                *)
(* lambda x, y: 2 if (x == y) else -1, with the two scores as parameters.  *)
(***************************************************************************)
similarity_score_function(x, y) == IF x = y THEN match_score ELSE mismatch_score

(***************************************************************************)
(* Matrix initialisation, lines 56-71.                                     *)
(***************************************************************************)
RECURSIVE TopRowScore(_)
TopRowScore(n) == IF n = 0 THEN 0 ELSE TopRowScore(n - 1) + ins_score

InitHSpecReading(m, n) ==
    IF align_full_hyp
    THEN IF m = 0 THEN TopRowScore(n) ELSE -(hyp_len + 2)
    ELSE 0

InitH(m, n) ==
    IF align_full_hyp
    THEN IF n = 0 THEN 0
         ELSE IF m = 0 THEN TopRowScore(n)
         ELSE -(hyp_len + 2)
    ELSE 0

InitBP(m, n) ==
    IF align_full_hyp /\ m = 0 /\ n >= 1 THEN <<m, n - 1>> ELSE <<0, 0>>

InitMatrices ==
    /\ pc = "init"
    /\ H' = [m \in 0..ref_len |-> [n \in 0..hyp_len |-> InitH(m, n)]]
    /\ bp' = [m \in 0..ref_len |-> [n \in 0..hyp_len |-> InitBP(m, n)]]
    /\ max_score' = NegInf
    /\ max_score_element' = <<0, 0>>
    /\ ref_index' = 1
    /\ hyp_index' = 1
    /\ pc' = "fill"
    /\ UNCHANGED <<genvars, entry, ref, hyp, match_score, mismatch_score, del_score,
                   ins_score, eps_symbol, align_full_hyp, order, score,
                   output, ets, alignments, ngrams, raised>>

(***************************************************************************)
(* The recurrence at one cell, lines 78-113.                               *)
(***************************************************************************)
DiagCand(m, n) == H[m - 1][n - 1] + similarity_score_function(ref[m], hyp[n])
DelCand(m, n) == H[m - 1][n] + del_score
InsCand(m, n) == H[m][n - 1] + ins_score

DiagBP(m, n) == <<m - 1, n - 1>>
DelBPSkip(m, n) == <<m - 2, n>>
DelBP(m, n) == <<m - 1, n>>
InsBP(m, n) == <<m, n - 1>>

\* lines 82-84: the guard of the diagonal update
DiagAccepted(sub_or_ok, cur) ==
    \/ ~align_full_hyp /\ sub_or_ok > 0
    \/ align_full_hyp /\ sub_or_ok >= cur

\* lines 110-111: is the cell a candidate for the best terminal cell
TerminalEligible(n, h) ==
    /\ (~align_full_hyp \/ n = hyp_len)
    /\ h >= max_score

FillCell ==
    /\ pc = "fill"
    /\ ref_len >= 1 /\ hyp_len >= 1 /\ ref_index <= ref_len
    /\ LET m == ref_index
           n == hyp_index
           sub_or_ok == DiagCand(m, n)
           acc == DiagAccepted(sub_or_ok, H[m][n])
           h1 == IF acc THEN sub_or_ok ELSE H[m][n]
           b1 == IF acc THEN DiagBP(m, n) ELSE bp[m][n]
           del == DelCand(m, n) > h1
           h2 == IF del THEN DelCand(m, n) ELSE h1
           b2 == IF del THEN DelBP(m, n) ELSE b1
           ins == InsCand(m, n) > h2
           h3 == IF ins THEN InsCand(m, n) ELSE h2
           b3 == IF ins THEN InsBP(m, n) ELSE b2
       IN  /\ H' = [H EXCEPT ![m][n] = h3]
           /\ bp' = [bp EXCEPT ![m][n] = b3]
           /\ IF TerminalEligible(n, h3)
              THEN /\ max_score' = h3
                   /\ max_score_element' = <<m, n>>
              ELSE UNCHANGED <<max_score, max_score_element>>
           /\ IF n < hyp_len
              THEN /\ hyp_index' = n + 1
                   /\ ref_index' = m
              ELSE /\ hyp_index' = 1
                   /\ ref_index' = m + 1
    /\ UNCHANGED <<genvars, entry, ref, hyp, match_score, mismatch_score, del_score,
                   ins_score, eps_symbol, align_full_hyp, order, score,
                   output, ets, alignments, ngrams, raised, pc>>

\* lines 115-116, reached when the nested loops of lines 76-77 are exhausted
BeginTraceback ==
    /\ pc = "fill"
    /\ (ref_len = 0 \/ hyp_len = 0 \/ ref_index > ref_len)
    /\ ref_index' = max_score_element[1]
    /\ hyp_index' = max_score_element[2]
    /\ score' = max_score
    /\ pc' = "traceback"
    /\ UNCHANGED <<genvars, entry, ref, hyp, match_score, mismatch_score, del_score,
                   ins_score, eps_symbol, align_full_hyp, order, H, bp,
                   max_score, max_score_element, output, ets, alignments,
                   ngrams, raised>>

(***************************************************************************)
(* The traceback, lines 120-168: one iteration of the while loop per step. *)
(***************************************************************************)
LoopCond ==
    \/ ~align_full_hyp /\ score >= 0
    \/ align_full_hyp /\ hyp_index > 0

\* ref[ref_index-1] if ref_index > 0 else eps_symbol
RefWord(m) == IF m > 0 THEN ref[m] ELSE eps_symbol

\* hyp[hyp_index-1] if hyp_index > 0 else eps_symbol
HypWordOffByOne(n) == IF n > 1 THEN hyp[n] ELSE eps_symbol
HypWord(n) == IF n > 0 THEN hyp[n] ELSE eps_symbol

\* The 6-tuple appended to output; Alignment(*o) names its slots.
Alignment(r, h, pm, pn, m, n) ==
    [ref |-> r, hyp |-> h, refi_from |-> pm, hypi_from |-> pn,
     refi_to |-> m, hypi_to |-> n]

\* Python's s[i] is defined for -len(s) <= i < len(s)
PyIndexOK(s, i) == -Len(s) <= i /\ i < Len(s)

\* lines 164-168: the handler formats ref[prev_ref_index] and
\* hyp[prev_hyp_index] before it raises RuntimeError
HandlerRaises(pm, pn) ==
    IF PyIndexOK(ref, pm) /\ PyIndexOK(hyp, pn)
    THEN "RuntimeError" ELSE "IndexError"

\* lines 124-125: the base case of the traceback
IsBaseCase(prev, m, n) == prev = <<m, n>> \/ prev = <<0, 0>>

\* lines 137-159: which move the backpointer encodes; "bug" is the
\* failing assertion or the else branch
MoveKind(pm, pn, m, n) ==
    IF m = pm + 1 /\ n = pn + 1 THEN "diag"
    ELSE IF pn = n THEN (IF pm = m - 1 THEN "del" ELSE "bug")
    ELSE IF pm = m THEN (IF pn = n - 1 THEN "ins" ELSE "bug")
    ELSE "bug"

MoveRecord(kind, pm, pn, m, n) ==
    IF kind = "diag" THEN Alignment(RefWord(m), HypWord(n), pm, pn, m, n)
    ELSE IF kind = "del" THEN Alignment(RefWord(m), eps_symbol, pm, pn, m, n)
    ELSE Alignment(eps_symbol, HypWord(n), pm, pn, m, n)

TracebackStep ==
    /\ pc = "traceback"
    /\ LoopCond
    /\ LET m == ref_index
           n == hyp_index
           prev == bp[m][n]
           pm == prev[1]
           pn == prev[2]
           kind == MoveKind(pm, pn, m, n)
       IN  IF IsBaseCase(prev, m, n)
           THEN /\ IF H[m][n] # 0
                   THEN /\ output' = Append(output,
                               Alignment(RefWord(m), HypWord(n), pm, pn, m, n))
                        /\ ref_index' = pm
                        /\ hyp_index' = pn
                        /\ score' = H[pm][pn]
                   ELSE /\ score' = H[m][n]
                        /\ UNCHANGED <<output, ref_index, hyp_index>>
                /\ pc' = "loop_exit"
                /\ UNCHANGED raised
           ELSE IF kind = "bug"
           THEN /\ raised' = HandlerRaises(pm, pn)
                /\ pc' = "raised"
                /\ UNCHANGED <<output, ref_index, hyp_index, score>>
           ELSE /\ output' = Append(output, MoveRecord(kind, pm, pn, m, n))
                /\ ref_index' = pm
                /\ hyp_index' = pn
                /\ score' = H[pm][pn]
                /\ UNCHANGED <<pc, raised>>
    /\ UNCHANGED <<genvars, entry, ref, hyp, match_score, mismatch_score, del_score,
                   ins_score, eps_symbol, align_full_hyp, order, H, bp,
                   max_score, max_score_element, ets, alignments, ngrams>>

\* the while condition of lines 120-121 evaluates to false
TracebackExit ==
    /\ pc = "traceback"
    /\ ~LoopCond
    /\ pc' = "loop_exit"
    /\ UNCHANGED <<genvars, entry, ref, hyp, match_score, mismatch_score, del_score,
                   ins_score, eps_symbol, align_full_hyp, order, H, bp,
                   max_score, max_score_element, ref_index, hyp_index, score,
                   output, ets, alignments, ngrams, raised>>

RECURSIVE Reverse(_)
Reverse(s) == IF s = <<>> THEN <<>> ELSE Append(Reverse(Tail(s)), Head(s))

\* lines 170-189: the post-loop assertion, output.reverse() and the return
Return ==
    /\ pc = "loop_exit"
    /\ IF align_full_hyp \/ score = 0
       THEN /\ output' = Reverse(output)
            /\ pc' = "returned"
            /\ UNCHANGED raised
       ELSE /\ raised' = "AssertionError"
            /\ pc' = "raised"
            /\ UNCHANGED output
    /\ UNCHANGED <<genvars, entry, ref, hyp, match_score, mismatch_score, del_score,
                   ins_score, eps_symbol, align_full_hyp, order, H, bp,
                   max_score, max_score_element, ref_index, hyp_index, score,
                   ets, alignments, ngrams>>

(***************************************************************************)
(* Edit classifier, lines 194-221.                                         *)
(***************************************************************************)
get_edit_type(r, h, eps) ==
    IF r # h /\ ~(r = eps \/ h = eps) THEN "sub"
    ELSE IF r # h /\ r = eps THEN "ins"
    ELSE IF r # h /\ h = eps THEN "del"
    ELSE "cor"

\* line 220, after the aligner has returned to align_and_calc_edit_types
CalcEditTypes ==
    /\ pc = "returned"
    /\ entry = "align_and_calc_edit_types"
    /\ ets' = [k \in 1..Len(output) |->
                  get_edit_type(output[k].ref, output[k].hyp, eps_symbol)]
    /\ pc' = "done"
    /\ UNCHANGED <<genvars, entry, ref, hyp, match_score, mismatch_score, del_score,
                   ins_score, eps_symbol, align_full_hyp, order, H, bp,
                   max_score, max_score_element, ref_index, hyp_index, score,
                   output, alignments, ngrams, raised>>

(***************************************************************************)
(* Gap padder, lines 243-254, after the aligner has returned.              *)
(***************************************************************************)
\* [Alignment(ref_tok[i], eps, i, 0, None, None) for i in range(0, start)]
PaddingLeft(start) ==
    [j \in 1..start |->
        Alignment(ref[j], eps_symbol, j - 1, 0, NoneIdx, NoneIdx)]

\* [Alignment(ref_tok[i], eps, i, len(hyp_tok), None, None)
\*  for i in range(end + 1, len(ref_tok))]
PaddingRight(end) ==
    [j \in 1..(ref_len - (end + 1)) |->
        Alignment(ref[end + 1 + j], eps_symbol, end + j, hyp_len,
                  NoneIdx, NoneIdx)]

PadAlignments ==
    /\ pc = "returned"
    /\ entry \in {"padded_alignments", "calc_aligned_ngram_tuples"}
    /\ IF output = <<>>
       THEN \* alignments[0] on an empty list
            /\ raised' = "IndexError"
            /\ pc' = "raised"
            /\ UNCHANGED alignments
       ELSE /\ alignments' = PaddingLeft(output[1].refi_from) \o output
                               \o PaddingRight(output[Len(output)].refi_from)
            /\ pc' = IF entry = "padded_alignments" THEN "done" ELSE "padded"
            /\ UNCHANGED raised
    /\ UNCHANGED <<genvars, entry, ref, hyp, match_score, mismatch_score, del_score,
                   ins_score, eps_symbol, align_full_hyp, order, H, bp,
                   max_score, max_score_element, ref_index, hyp_index, score,
                   output, ets, ngrams>>

(***************************************************************************)
(* N-gram extractor, lines 262-273.                                        *)
(***************************************************************************)
\* ri_to_alignment[i]: the records whose refi_from is i, in list order
RECURSIVE Bucket(_, _)
Bucket(als, i) ==
    IF als = <<>> THEN <<>>
    ELSE IF Head(als).refi_from = i
         THEN <<Head(als)>> \o Bucket(Tail(als), i)
         ELSE Bucket(Tail(als), i)

\* line 270: [al for i in range(k, k + o) for al in ri_to_alignment[i]]
RECURSIVE NgramRecords(_, _)
NgramRecords(k, o) ==
    IF o = 0 THEN <<>>
    ELSE NgramRecords(k, o - 1) \o Bucket(alignments, k + o - 1)

\* Python's s[lo:hi] for 0 <= lo
PySlice(s, lo, hi) ==
    SubSeq(s, lo + 1, IF hi < Len(s) THEN hi ELSE Len(s))

\* lines 271-273
NgramTuple(k, o) ==
    LET ngram == NgramRecords(k, o)
        first == ngram[1]
        last == ngram[Len(ngram)]
    IN  <<PySlice(hyp, first.hypi_from, last.hypi_from + 1),
          PySlice(ref, first.refi_from, last.refi_from + 1)>>

\* lines 268-269: the position of the next yield.  The generator is at
\* order o with k the next start and n the length of the range object that
\* line 269 built when order o began; a new order re-reads len(ref_tok).
\* <<0, 0, 0>> stands for the exhausted loops.
RECURSIVE NextPos(_, _, _)
NextPos(o, k, n) ==
    IF k < n THEN <<o, k, n>>
    ELSE IF o + 1 > order THEN <<0, 0, 0>>
    ELSE NextPos(o + 1, 0, ref_len - o)

\* One next() on the generator: it runs to the next yield of line 273, to
\* the end of the loops (StopIteration) or to ngram[0] on an empty list.
\* The first next() has run padded_alignments and lines 262-266 before.
GenNext ==
    /\ pc \in {"padded", "yielded"}
    /\ LET p == NextPos(gen_o, gen_k, gen_n)
       IN  IF p[1] = 0
           THEN /\ pc' = "done"
                /\ UNCHANGED <<ngrams, raised, gen_o, gen_k, gen_n>>
           ELSE IF NgramRecords(p[2], p[1]) = <<>>
           THEN /\ raised' = "IndexError"
                /\ pc' = "raised"
                /\ UNCHANGED <<ngrams, gen_o, gen_k, gen_n>>
           ELSE /\ ngrams' = Append(ngrams, NgramTuple(p[2], p[1]))
                /\ gen_o' = p[1]
                /\ gen_k' = p[2] + 1
                /\ gen_n' = p[3]
                /\ pc' = "yielded"
                /\ UNCHANGED raised
    /\ UNCHANGED <<entry, ref, hyp, match_score, mismatch_score, del_score,
                   ins_score, eps_symbol, align_full_hyp, order, H, bp,
                   max_score, max_score_element, ref_index, hyp_index, score,
                   output, ets, alignments, caller_writes>>

\* s.pop()
Pop(s) == SubSeq(s, 1, Len(s) - 1)

\* While the generator is suspended at line 273 the caller owns ref_tok and
\* hyp_tok, the very lists lines 269-272 read after the resume: it may
\* overwrite an element or pop the last one.
CallerMutates ==
    /\ pc = "yielded"
    /\ caller_writes < MaxCallerWrites
    /\ caller_writes' = caller_writes + 1
    /\ \/ /\ \E i \in 1..Len(ref) : \E t \in Tokens \ {ref[i]} :
                 ref' = [ref EXCEPT ![i] = t]
          /\ UNCHANGED hyp
       \/ /\ \E i \in 1..Len(hyp) : \E t \in Tokens \ {hyp[i]} :
                 hyp' = [hyp EXCEPT ![i] = t]
          /\ UNCHANGED ref
       \/ /\ ref # <<>>
          /\ ref' = Pop(ref)
          /\ UNCHANGED hyp
       \/ /\ hyp # <<>>
          /\ hyp' = Pop(hyp)
          /\ UNCHANGED ref
    /\ UNCHANGED <<entry, match_score, mismatch_score, del_score,
                   ins_score, eps_symbol, align_full_hyp, order, H, bp,
                   max_score, max_score_element, ref_index, hyp_index, score,
                   output, ets, alignments, ngrams, raised, pc,
                   gen_o, gen_k, gen_n>>

(***************************************************************************)
(* One call: the entry point, its arguments and the fresh locals.          *)
(***************************************************************************)
Init ==
    /\ entry \in Entries
    /\ ref \in SeqsUpTo(MaxRefLen)
    /\ hyp \in SeqsUpTo(MaxHypLen)
    /\ IF entry = "smith_waterman_alignment"
       THEN /\ match_score \in MatchScores
            /\ mismatch_score \in MismatchScores
            /\ del_score \in DelScores
            /\ ins_score \in InsScores
            /\ align_full_hyp \in BOOLEAN
            /\ eps_symbol = "<eps>"
       ELSE \* lines 210-218 and 234-242
            /\ match_score = 2
            /\ mismatch_score = -1
            /\ del_score = -1
            /\ ins_score = -1
            /\ align_full_hyp = TRUE
            /\ eps_symbol = "|"
    /\ order \in (IF entry = "calc_aligned_ngram_tuples"
                  THEN 1..MaxOrder ELSE {0})
    /\ H = <<>>
    /\ bp = <<>>
    /\ max_score = NegInf
    /\ max_score_element = <<0, 0>>
    /\ ref_index = 0
    /\ hyp_index = 0
    /\ score = NegInf
    /\ output = <<>>
    /\ ets = <<>>
    /\ alignments = <<>>
    /\ ngrams = <<>>
    /\ raised = "none"
    /\ pc = "init"
    /\ gen_o = 0
    /\ gen_k = 0
    /\ gen_n = 0
    /\ caller_writes = 0

Next ==
    \/ InitMatrices
    \/ FillCell
    \/ BeginTraceback
    \/ TracebackStep
    \/ TracebackExit
    \/ Return
    \/ CalcEditTypes
    \/ PadAlignments
    \/ GenNext
    \/ CallerMutates

Spec == Init /\ [][Next]_vars

(***************************************************************************)
(* Properties.                                                             *)
(***************************************************************************)
\* the records of output that carry a real hypothesis token
CarriesHyp(o) == o.hyp # eps_symbol

\* the matrices are complete once the nested loops are exhausted, and live
\* until the aligner returns
MatrixBuilt == pc \in {"traceback", "loop_exit", "returned"}

Interior == (1..ref_len) \X (1..hyp_len)

IsInsertionShape(o) == o.refi_to = o.refi_from /\ o.hypi_to = o.hypi_from + 1
IsDeletionShape(o) == o.hypi_to = o.hypi_from /\ o.refi_to = o.refi_from + 1

\* C1: in full-hypothesis mode, for non-empty ref and hyp and every scoring
\* configuration, the returned list has exactly one record carrying hyp[j]
\* with hyp_index_from = j for every j, and ref_index_from never decreases
\* along the list.
C1_FullHypCoverage ==
    (pc = "returned" /\ align_full_hyp /\ ref # <<>> /\ hyp # <<>>) =>
        /\ \A j \in 0..(hyp_len - 1) :
              Cardinality({k \in 1..Len(output) :
                             /\ CarriesHyp(output[k])
                             /\ output[k].hypi_from = j
                             /\ output[k].hyp = hyp[j + 1]}) = 1
        /\ \A k \in 1..Len(output) :
              CarriesHyp(output[k]) => output[k].hypi_from \in 0..(hyp_len - 1)
        /\ \A k \in 1..(Len(output) - 1) :
              output[k].refi_from <= output[k + 1].refi_from

\* C2: in full-hypothesis mode an empty hyp against a non-empty ref returns
\* |ref| deletion records (ref[i] against eps, in order) and the score
\* |ref| * del_score; an empty ref against a non-empty hyp returns |hyp|
\* insertion records (eps against hyp[j]).
C2_DegenerateInputs ==
    (pc = "returned" /\ align_full_hyp) =>
        /\ (hyp = <<>> /\ ref # <<>>) =>
              /\ Len(output) = ref_len
              /\ \A k \in 1..Len(output) :
                    output[k].ref = ref[k] /\ output[k].hyp = eps_symbol
              /\ max_score = ref_len * del_score
        /\ (ref = <<>> /\ hyp # <<>>) =>
              /\ Len(output) = hyp_len
              /\ \A k \in 1..Len(output) :
                    output[k].ref = eps_symbol /\ output[k].hyp = hyp[k]

\* C3: for ref = hyp under the fixed scoring (match 2, others -1) every
\* record is classified "cor", there is one record per token and the
\* alignment score is 2 * len(ref).
C3_IdenticalAllCorrect ==
    (pc = "done" /\ entry = "align_and_calc_edit_types" /\ ref = hyp) =>
        /\ Len(ets) = ref_len
        /\ \A k \in 1..Len(ets) : ets[k] = "cor"
        /\ max_score = 2 * ref_len

\* C4: for every ref and hyp, padded_alignments returns records whose
\* ref_index_from values are exactly 0 .. len(ref)-1.
C4_PaddedCoverage ==
    (entry = "padded_alignments" /\ pc \in {"done", "raised"}) =>
        /\ pc = "done"
        /\ {alignments[k].refi_from : k \in 1..Len(alignments)}
              = 0..(ref_len - 1)

\* the real hypothesis tokens of a list of records, in order
RECURSIVE RealHypTokens(_)
RealHypTokens(als) ==
    IF als = <<>> THEN <<>>
    ELSE (IF CarriesHyp(Head(als)) THEN <<Head(als).hyp>> ELSE <<>>)
         \o RealHypTokens(Tail(als))

\* C5: calc_aligned_ngram_tuples(ref, hyp, 1), consumed by a caller that
\* leaves ref and hyp alone, yields len(ref) pairs in all, the k-th being the
\* real hypothesis tokens of the padded records at reference position k
\* (none for a position that is only a deletion or a padding record),
\* against [ref[k]].
C5_UnigramsReproducePadding ==
    (entry = "calc_aligned_ngram_tuples" /\ order = 1 /\ caller_writes = 0
        /\ pc \in {"yielded", "done"}) =>
        /\ pc = "done" => Len(ngrams) = ref_len
        /\ \A j \in 1..Len(ngrams) :
              ngrams[j] = <<RealHypTokens(Bucket(alignments, j - 1)),
                            <<ref[j]>>>>

\* C6: every backpointer the traceback reads is the base case or one of the
\* three neighbours, and RuntimeError is never raised.
C6_TracebackNeverFails ==
    /\ raised # "RuntimeError"
    /\ (pc = "traceback" /\ LoopCond) =>
          LET prev == bp[ref_index][hyp_index]
          IN  \/ prev = <<0, 0>>
              \/ prev = <<ref_index, hyp_index>>
              \/ prev \in {<<ref_index - 1, hyp_index - 1>>,
                            <<ref_index - 1, hyp_index>>,
                            <<ref_index, hyp_index - 1>>}

C6_Witness ==
    /\ pc = "returned"
    /\ ~align_full_hyp
    /\ \E i, j, k \in 1..Len(output) :
          /\ IsInsertionShape(output[i])
          /\ IsDeletionShape(output[j])
          /\ output[k].refi_to = output[k].refi_from + 1
          /\ output[k].hypi_to = output[k].hypi_from + 1

\* C7: in local mode the running score is 0 when the traceback loop exits,
\* for every input including an empty ref or hyp, so the post-loop
\* assertion holds and the call does not raise.
C7_LocalScoreZeroAtExit ==
    ~align_full_hyp =>
        /\ (pc = "loop_exit" => score = 0)
        /\ raised # "AssertionError"

\* C8: no emitted record has both token slots equal to eps; the ref slot is
\* eps only in an insertion record and the hyp slot only in a deletion
\* record.
C8_AtMostOneEps ==
    \A k \in 1..Len(output) :
        LET o == output[k]
        IN  /\ ~(o.ref = eps_symbol /\ o.hyp = eps_symbol)
            /\ (o.ref = eps_symbol => IsInsertionShape(o))
            /\ (o.hyp = eps_symbol => IsDeletionShape(o))

C8_Witness ==
    /\ pc = "returned"
    /\ align_full_hyp
    /\ \E i, j \in 1..Len(output) :
          /\ output[i].ref = eps_symbol /\ output[i].hypi_from = 0
          /\ output[j].hyp = eps_symbol

\* the state right after lines 56-71, before the first cell is computed
JustInitialized == pc = "fill" /\ ref_index = 1 /\ hyp_index = 1

\* C9 as stated: after initialisation in full-hypothesis mode H[0][0] = 0
\* and H[m][0] = -(|hyp|+2) for every m > 0.
C9_FirstColumnPlaceholder ==
    (align_full_hyp /\ JustInitialized) =>
        /\ H[0][0] = 0
        /\ \A m \in 1..ref_len : H[m][0] = -(hyp_len + 2)

\* C9 amended: after initialisation in full-hypothesis mode H[m][0] = 0 for
\* every m >= 0 and the placeholder -(|hyp|+2) is held by the cells with
\* m > 0 and n > 0 only; the first column stays 0 ever after.
C9_FirstColumnZero ==
    align_full_hyp =>
        /\ JustInitialized =>
              /\ \A m \in 0..ref_len : H[m][0] = 0
              /\ \A c \in Interior : H[c[1]][c[2]] = -(hyp_len + 2)
        /\ pc # "init" => \A m \in 0..ref_len : H[m][0] = 0

C9_Witness ==
    /\ align_full_hyp
    /\ JustInitialized
    /\ ref_len >= 2
    /\ hyp_len >= 1
    /\ H[2][0] = 0
    /\ H[2][1] = -(hyp_len + 2)

\* C10: in full-hypothesis mode, once the matrices are built, every interior
\* cell whose diagonal candidate is >= both the deletion and the insertion
\* candidate has BP = (m-1, n-1) and H = the diagonal candidate; BP is a
\* deletion or insertion backpointer only when that candidate is strictly
\* greater than the diagonal candidate.
C10_DiagonalTieBreak ==
    (align_full_hyp /\ MatrixBuilt) =>
        \A c \in Interior :
            LET m == c[1]
                n == c[2]
            IN  /\ (DiagCand(m, n) >= DelCand(m, n)
                        /\ DiagCand(m, n) >= InsCand(m, n)) =>
                      /\ bp[m][n] = <<m - 1, n - 1>>
                      /\ H[m][n] = DiagCand(m, n)
                /\ bp[m][n] = <<m - 1, n>> => DelCand(m, n) > DiagCand(m, n)
                /\ bp[m][n] = <<m, n - 1>> => InsCand(m, n) > DiagCand(m, n)

====
